---- MODULE Spec2Model ----
(***************************************************************************)
(* Model of the distance calculator's App component (src/src/App.tsx).     *)
(*                                                                         *)
(* The component's state, its two initialisation effects (loadModel and    *)
(* startCamera), the select control, the self-rescheduling detectObjects   *)
(* loop and the effect cleanup are modelled as a state machine.  Every     *)
(* invocation of detectObjects started by the loop-start effect is kept    *)
(* with the selectedObject value its closure captured.                     *)
(*                                                                         *)
(* Widths of KNOWN_OBJECTS are in tenths of a centimetre (8.5 cm = 85) so  *)
(* that the arithmetic stays in the integers; bounding-box widths are in   *)
(* pixels.  The keys and messages are written without their accents.       *)
(* A requestAnimationFrame handle is identified by the invocation it was   *)
(* issued to: each invocation has at most one handle outstanding, and      *)
(* animationFrameRef.current always holds the handle issued last.          *)
(***************************************************************************)
EXTENDS Integers, Sequences, FiniteSets, TLC

VARIABLES
    model,              \* useState model: TRUE when the detector is set (non-null)
    loadModel,          \* the loadModel() promise: "pending" | "loaded" | "failed"
    startCamera,        \* the getUserMedia() promise: "pending" | "granted" | "denied"
    tracks,             \* tracks of the acquired MediaStream: "none" | "live" | "stopped"
    srcObject,          \* the video element's srcObject is the acquired stream
    refsAttached,       \* videoRef.current and canvasRef.current are non-null
    teardowns,          \* number of times the effect cleanup has run
    isStreaming,        \* useState isStreaming
    selectedObject,     \* useState selectedObject
    distance,           \* useState distance
    error,              \* useState error
    detectedObjects,    \* useState detectedObjects
    canvas,             \* the annotations painted on the canvas by the last rendered frame
    loops,              \* the detectObjects invocations started by the loop-start effect
    animationFrameRef,  \* animationFrameRef.current: 0 (undefined) or the loop whose
                        \* latest requestAnimationFrame handle it holds
    changes,            \* number of onChange events of the select so far
    stopOnStopped,      \* track.stop() has been called on tracks already stopped
    cancelOnCancelled   \* cancelAnimationFrame has been called on a handle already cancelled

vars == <<model, loadModel, startCamera, tracks, srcObject, refsAttached, teardowns,
          isStreaming, selectedObject, distance, error, detectedObjects, canvas,
          loops, animationFrameRef, changes, stopOnStopped, cancelOnCancelled>>

---------------------------------------------------------------------------
(* Bounds of the model *)

\* number of selection changes the user makes
MaxChanges == 1

\* number of detections the detector returns for one frame
MaxDetections == 2

\* number of times the effect cleanup is run
MaxTeardowns == 2

---------------------------------------------------------------------------
(* Constants of the program *)

\* a table whose bank-card entry has lost its width
KNOWN_OBJECTS_NoWidth ==
    [k \in {"visage humain", "feuille A4", "carte bancaire", "telephone portable"} |->
        CASE k = "visage humain"      -> [width10 |-> 150, cocoClass |-> "person"]
          [] k = "feuille A4"         -> [width10 |-> 210, cocoClass |-> "book"]
          [] k = "carte bancaire"     -> [width10 |-> 0,   cocoClass |-> "cell phone"]
          [] k = "telephone portable" -> [width10 |-> 70,  cocoClass |-> "cell phone"]]

\* the table of reference objects; width10 is the real width in tenths of a centimetre
KNOWN_OBJECTS ==
    [k \in {"visage humain", "feuille A4", "carte bancaire", "telephone portable"} |->
        CASE k = "visage humain"      -> [width10 |-> 150, cocoClass |-> "person"]
          [] k = "feuille A4"         -> [width10 |-> 210, cocoClass |-> "book"]
          [] k = "carte bancaire"     -> [width10 |-> 85,  cocoClass |-> "cell phone"]
          [] k = "telephone portable" -> [width10 |-> 70,  cocoClass |-> "cell phone"]]

Keys == DOMAIN KNOWN_OBJECTS

focalLength == 500

ModelError == "Erreur de chargement du modele de detection"

CameraError == "Erreur d'acces a la camera"

---------------------------------------------------------------------------
(* The detector's output: classes, box widths and scores the model draws from;
   a score is held in thousandths (873 is 0.873). *)

Detections ==
    {[class |-> "person", width |-> 100, score |-> 873],
     [class |-> "person", width |-> 0, score |-> 125],
     [class |-> "book", width |-> 100, score |-> 500]}

Predictions == UNION {[1..n -> Detections] : n \in 0..MaxDetections}

---------------------------------------------------------------------------
(* distance: null, a number of centimetres, or the IEEE value Infinity *)

Null == [kind |-> "null", cm |-> 0]

Infinity == [kind |-> "Infinity", cm |-> 0]

Number(n) == [kind |-> "number", cm |-> n]

\* Math.round(n / d) for integers n and d # 0: the nearest integer, halves upwards
MathRound(n, d) ==
    IF d > 0 THEN (2 * n + d) \div (2 * d)
             ELSE (0 - (2 * n + d)) \div (0 - 2 * d)

\* Math.round((knownWidth * focalLength) / width); a positive number over 0 is Infinity
estimatedDistance(key, width) ==
    IF width = 0
        THEN Infinity
        ELSE Number(MathRound(KNOWN_OBJECTS[key].width10 * focalLength, 10 * width))

\* a label whose percentage is cut instead of rounded
labelFloor(prediction) ==
    prediction.class \o " (" \o ToString(prediction.score \div 10) \o "%)"

\* `${prediction.class} (${Math.round(prediction.score * 100)}%)`
label(prediction) ==
    prediction.class \o " (" \o ToString(MathRound(prediction.score * 100, 1000)) \o "%)"

\* the drawing done by predictions.forEach on the cleared canvas: for every
\* prediction, in order, strokeRect of its box and fillText of its label
Draw(predictions) ==
    [j \in DOMAIN predictions |->
        [strokeRect |-> predictions[j].width, fillText |-> label(predictions[j])]]

Matches(prediction, key) == prediction.class = KNOWN_OBJECTS[key].cocoClass

\* predictions.forEach: every matching prediction calls setDistance; the last call wins
RECURSIVE forEach(_, _, _)
forEach(predictions, key, d) ==
    IF predictions = <<>>
        THEN d
        ELSE forEach(Tail(predictions), key,
                     IF Matches(Head(predictions), key)
                         THEN estimatedDistance(key, Head(predictions).width)
                         ELSE d)

---------------------------------------------------------------------------
(* State setters and effects *)

\* the component is mounted until its effect cleanup runs
mounted == teardowns = 0

\* a state setter: dropped once the component is unmounted
SetState(old, new) == IF mounted THEN new ELSE old

\* a loop-start guard that asks for only one of the two initialisations
LoopGuardEither(streaming, m) == streaming \/ m

\* the guard of the loop-start effect
LoopGuard(streaming, m) == streaming /\ m

\* detectObjects(): returns at once on a missing model or ref, else awaits model.detect
detectObjects(key) ==
    [selectedObject |-> key,
     pc |-> IF refsAttached THEN "detecting" ELSE "ended"]

\* the loop-start effect, run after a render in which one of its dependencies changed
LoopEffect(streaming, m, key) ==
    IF mounted /\ LoopGuard(streaming, m)
        THEN Append(loops, detectObjects(key))
        ELSE loops

Running(i) == loops[i].pc \in {"detecting", "scheduled"}

---------------------------------------------------------------------------
Init ==
    /\ model = FALSE
    /\ loadModel = "pending"
    /\ startCamera = "pending"
    /\ tracks = "none"
    /\ srcObject = FALSE
    /\ refsAttached = TRUE
    /\ teardowns = 0
    /\ isStreaming = FALSE
    /\ selectedObject = "visage humain"
    /\ distance = Null
    /\ error = ""
    /\ detectedObjects = <<>>
    /\ canvas = <<>>
    /\ loops = <<>>
    /\ animationFrameRef = 0
    /\ changes = 0
    /\ stopOnStopped = FALSE
    /\ cancelOnCancelled = FALSE

\* loadModel: tf.ready() and cocoSsd.load() resolve; setModel, then the loop-start effect
LoadModelResolve ==
    /\ loadModel = "pending"
    /\ loadModel' = "loaded"
    /\ model' = SetState(model, TRUE)
    /\ loops' = LoopEffect(isStreaming, model', selectedObject)
    /\ UNCHANGED <<startCamera, tracks, srcObject, refsAttached, teardowns, isStreaming,
                   selectedObject, distance, error, detectedObjects, canvas, animationFrameRef,
                   changes, stopOnStopped, cancelOnCancelled>>

\* loadModel: the load throws; the catch sets the error text
LoadModelReject ==
    /\ loadModel = "pending"
    /\ loadModel' = "failed"
    /\ error' = SetState(error, ModelError)
    /\ UNCHANGED <<model, startCamera, tracks, srcObject, refsAttached, teardowns,
                   isStreaming, selectedObject, distance, detectedObjects, canvas, loops,
                   animationFrameRef, changes, stopOnStopped, cancelOnCancelled>>

\* startCamera: getUserMedia resolves with a live stream
StartCameraResolve ==
    /\ startCamera = "pending"
    /\ startCamera' = "granted"
    /\ tracks' = "live"
    /\ IF refsAttached
           THEN /\ srcObject' = TRUE
                /\ isStreaming' = SetState(isStreaming, TRUE)
                /\ error' = SetState(error, "")
           ELSE UNCHANGED <<srcObject, isStreaming, error>>
    /\ loops' = IF isStreaming' # isStreaming
                    THEN LoopEffect(isStreaming', model, selectedObject)
                    ELSE loops
    /\ UNCHANGED <<model, loadModel, refsAttached, teardowns, selectedObject, distance,
                   detectedObjects, canvas, animationFrameRef, changes, stopOnStopped,
                   cancelOnCancelled>>

\* startCamera whose catch only logs the rejection and sets no error text
StartCameraRejectSilent ==
    /\ startCamera = "pending"
    /\ startCamera' = "denied"
    /\ UNCHANGED <<model, loadModel, tracks, srcObject, refsAttached, teardowns,
                   isStreaming, selectedObject, distance, error, detectedObjects, canvas, loops,
                   animationFrameRef, changes, stopOnStopped, cancelOnCancelled>>

\* startCamera: getUserMedia rejects; the catch sets the error text
StartCameraReject ==
    /\ startCamera = "pending"
    /\ startCamera' = "denied"
    /\ error' = SetState(error, CameraError)
    /\ UNCHANGED <<model, loadModel, tracks, srcObject, refsAttached, teardowns,
                   isStreaming, selectedObject, distance, detectedObjects, canvas, loops,
                   animationFrameRef, changes, stopOnStopped, cancelOnCancelled>>

\* the video element's onPlay: it plays once it has a stream
OnPlay ==
    /\ refsAttached
    /\ srcObject
    /\ isStreaming' = SetState(isStreaming, TRUE)
    /\ loops' = IF isStreaming' # isStreaming
                    THEN LoopEffect(isStreaming', model, selectedObject)
                    ELSE loops
    /\ UNCHANGED <<model, loadModel, startCamera, tracks, srcObject, refsAttached,
                   teardowns, selectedObject, distance, error, detectedObjects, canvas,
                   animationFrameRef, changes, stopOnStopped, cancelOnCancelled>>

\* a selection change that also clears the distance shown
OnChangeReset(key) ==
    /\ mounted
    /\ changes < MaxChanges
    /\ key # selectedObject
    /\ changes' = changes + 1
    /\ selectedObject' = key
    /\ distance' = Null
    /\ loops' = LoopEffect(isStreaming, model, key)
    /\ UNCHANGED <<model, loadModel, startCamera, tracks, srcObject, refsAttached,
                   teardowns, isStreaming, error, detectedObjects, canvas,
                   animationFrameRef, stopOnStopped, cancelOnCancelled>>

\* the select's onChange: setSelectedObject, then the loop-start effect
OnChange(key) ==
    /\ mounted
    /\ changes < MaxChanges
    /\ key # selectedObject
    /\ changes' = changes + 1
    /\ selectedObject' = key
    /\ loops' = LoopEffect(isStreaming, model, key)
    /\ UNCHANGED <<model, loadModel, startCamera, tracks, srcObject, refsAttached,
                   teardowns, isStreaming, distance, error, detectedObjects, canvas,
                   animationFrameRef, stopOnStopped, cancelOnCancelled>>

\* model.detect resolves and the frame is rendered, but no further frame is requested
DetectResolveOnce(i, predictions) ==
    /\ loops[i].pc = "detecting"
    /\ detectedObjects' = SetState(detectedObjects, predictions)
    /\ IF refsAttached
           THEN /\ canvas' = Draw(predictions)
                /\ distance' = SetState(distance,
                                        forEach(predictions, loops[i].selectedObject, distance))
           ELSE UNCHANGED <<canvas, distance>>
    /\ loops' = [loops EXCEPT ![i].pc = "ended"]
    /\ UNCHANGED <<model, loadModel, startCamera, tracks, srcObject, refsAttached,
                   teardowns, isStreaming, selectedObject, error, changes, stopOnStopped,
                   cancelOnCancelled, animationFrameRef>>

\* model.detect resolves: the rest of detectObjects runs to its end
DetectResolve(i, predictions) ==
    /\ loops[i].pc = "detecting"
    /\ detectedObjects' = SetState(detectedObjects, predictions)
    /\ IF refsAttached
           THEN /\ canvas' = Draw(predictions)
                /\ distance' = SetState(distance,
                                        forEach(predictions, loops[i].selectedObject, distance))
                /\ animationFrameRef' = i
                /\ loops' = [loops EXCEPT ![i].pc = "scheduled"]
           ELSE \* canvasRef.current is null: canvas.getContext throws
                /\ loops' = [loops EXCEPT ![i].pc = "ended"]
                /\ UNCHANGED <<canvas, distance, animationFrameRef>>
    /\ UNCHANGED <<model, loadModel, startCamera, tracks, srcObject, refsAttached,
                   teardowns, isStreaming, selectedObject, error, changes, stopOnStopped,
                   cancelOnCancelled>>

\* model.detect rejects: detectObjects ends with the exception
DetectReject(i) ==
    /\ loops[i].pc = "detecting"
    /\ loops' = [loops EXCEPT ![i].pc = "ended"]
    /\ UNCHANGED <<model, loadModel, startCamera, tracks, srcObject, refsAttached,
                   teardowns, isStreaming, selectedObject, distance, error,
                   detectedObjects, canvas, animationFrameRef, changes, stopOnStopped,
                   cancelOnCancelled>>

\* the browser runs the scheduled callback: detectObjects of the same closure
AnimationFrame(i) ==
    /\ loops[i].pc = "scheduled"
    /\ loops' = [loops EXCEPT ![i] = detectObjects(loops[i].selectedObject)]
    /\ UNCHANGED <<model, loadModel, startCamera, tracks, srcObject, refsAttached,
                   teardowns, isStreaming, selectedObject, distance, error,
                   detectedObjects, canvas, animationFrameRef, changes, stopOnStopped,
                   cancelOnCancelled>>

\* the cleanup of the startCamera effect, run when the view is torn down.  The
\* cleanup reads videoRef.current when it runs, not when the effect ran: detach says
\* whether the renderer has by then set the refs of the removed elements to null
\* (React runs the cleanups of useEffect after it has detached the refs of an
\* unmounted element) or has left them attached.  animationFrameRef is a plain
\* ref and keeps its value.  Neither srcObject nor animationFrameRef.current is
\* cleared, so a later run of the cleanup takes the same branches again.
Cleanup(detach) ==
    /\ teardowns < MaxTeardowns
    /\ teardowns' = teardowns + 1
    /\ refsAttached' = (refsAttached /\ ~detach)
    /\ IF refsAttached' /\ srcObject
           THEN /\ tracks' = "stopped"
                /\ stopOnStopped' = (stopOnStopped \/ tracks = "stopped")
           ELSE UNCHANGED <<tracks, stopOnStopped>>
    /\ IF animationFrameRef # 0
           THEN /\ loops' = [loops EXCEPT ![animationFrameRef].pc =
                                 IF @ = "scheduled" THEN "cancelled" ELSE @]
                /\ cancelOnCancelled' =
                       (cancelOnCancelled \/ loops[animationFrameRef].pc = "cancelled")
           ELSE UNCHANGED <<loops, cancelOnCancelled>>
    /\ UNCHANGED <<model, loadModel, startCamera, srcObject, isStreaming, selectedObject,
                   distance, error, detectedObjects, canvas, animationFrameRef, changes>>

\* the results model.detect may resolve with; once the component is unmounted every
\* setter is dropped and the canvas is out of the document, so the content of the
\* result no longer matters
Results == IF mounted THEN Predictions ELSE {<<>>}

Next ==
    \/ LoadModelResolve
    \/ LoadModelReject
    \/ StartCameraResolve
    \/ StartCameraReject
    \/ OnPlay
    \/ \E key \in Keys : OnChange(key)
    \/ \E i \in DOMAIN loops : \E predictions \in Results : DetectResolve(i, predictions)
    \/ \E i \in DOMAIN loops : DetectReject(i)
    \/ \E i \in DOMAIN loops : AnimationFrame(i)
    \/ \E detach \in BOOLEAN : Cleanup(detach)

Spec == Init /\ [][Next]_vars

\* the results of the frames of the live program: what detectObjects does after
\* the await does not branch on the predictions (forEach has no early exit), so
\* frames with at most one prediction cover its control flow
LiveResults == {predictions \in Results : Len(predictions) <= 1}

\* the program while the view stays mounted and every model.detect call returns
\* its predictions: no cleanup runs and no detector call rejects
NextLive ==
    \/ LoadModelResolve
    \/ LoadModelReject
    \/ StartCameraResolve
    \/ StartCameraReject
    \/ OnPlay
    \/ \E key \in Keys : OnChange(key)
    \/ \E i \in DOMAIN loops : \E predictions \in LiveResults : DetectResolve(i, predictions)
    \/ \E i \in DOMAIN loops : AnimationFrame(i)

\* the invocations of detectObjects the loop-start effect can make: one when the
\* guard first holds and one per change of the selection
LoopIds == 1..(MaxChanges + 1)

\* the browser runs every callback given to requestAnimationFrame, and every
\* awaited model.detect call settles
LiveFairness ==
    \A i \in LoopIds :
        /\ WF_vars(i \in DOMAIN loops /\ AnimationFrame(i))
        /\ WF_vars(i \in DOMAIN loops
                      /\ \E predictions \in LiveResults : DetectResolve(i, predictions))

LiveSpec == Init /\ [][NextLive]_vars /\ LiveFairness

---------------------------------------------------------------------------
(* Vocabulary of the properties *)

\* a step in which a frame is processed to its end: the detector call of some
\* invocation resolves, the frame is rendered and the next frame is scheduled
FrameStep ==
    \E i \in DOMAIN loops : loops[i].pc = "detecting" /\ loops'[i].pc = "scheduled"

\* a step in which the browser runs a scheduled frame callback
CallbackStep ==
    \E i \in DOMAIN loops :
        loops[i].pc = "scheduled" /\ loops'[i].pc \in {"detecting", "ended"}

\* a step in which a detector call is started
DetectStartStep ==
    \/ Len(loops') > Len(loops) /\ loops'[Len(loops')].pc = "detecting"
    \/ \E i \in DOMAIN loops : loops[i].pc # "detecting" /\ loops'[i].pc = "detecting"

\* the distance the specification's formula gives for a reference and a positive width
FormulaDistance(key, width) ==
    Number(MathRound(KNOWN_OBJECTS[key].width10 * 500, 10 * width))

\* the detections of a frame that match the selected reference
Matching(frame, key) ==
    {j \in DOMAIN frame : frame[j].class = KNOWN_OBJECTS[key].cocoClass}

---------------------------------------------------------------------------
(* C1: a processed frame that holds a detection of the selected reference's class
   with a positive width w leaves the distance at round(realWidthCm * 500 / w) for
   such a detection. *)
C1_DistanceFormula ==
    [][(mounted /\ FrameStep) =>
          ((\E j \in Matching(detectedObjects', selectedObject) :
                detectedObjects'[j].width > 0)
             => \E j \in Matching(detectedObjects', selectedObject) :
                    /\ detectedObjects'[j].width > 0
                    /\ distance' = FormulaDistance(selectedObject,
                                                   detectedObjects'[j].width))]_vars

(* C2: a detection contributes to the distance if and only if its class is the
   detector class of the currently selected reference: a frame without such a
   detection leaves the distance alone, and a frame with one leaves the distance
   computed from one of its matching detections. *)
C2_MatchingRule ==
    [][(mounted /\ FrameStep) =>
          IF Matching(detectedObjects', selectedObject) = {}
              THEN distance' = distance
              ELSE \E j \in Matching(detectedObjects', selectedObject) :
                       distance' = estimatedDistance(selectedObject,
                                                     detectedObjects'[j].width)]_vars

(* C3: a matching detection of width zero or less is skipped, so the distance is
   always null or a finite positive number of centimetres. *)
C3_DistanceFinitePositive ==
    \/ distance = Null
    \/ distance.kind = "number" /\ distance.cm > 0

(* C4: a processed frame with no detection of the selected reference's class
   leaves the distance exactly at its previous value. *)
C4_NoMatchKeepsDistance ==
    [][(mounted /\ FrameStep /\ Matching(detectedObjects', selectedObject) = {})
          => distance' = distance]_vars

(* C5: no detector call is made and no frame is scheduled before both the capture
   stream has been acquired and the detector has finished loading. *)
C5_NoLoopBeforeBothReady ==
    \A i \in DOMAIN loops :
        loops[i].pc \in {"detecting", "scheduled"}
            => startCamera = "granted" /\ tracks # "none" /\ loadModel = "loaded"

\* C5: both initialisations are complete and a frame has been processed and the
\* next one scheduled
C5_Witness ==
    /\ startCamera = "granted"
    /\ loadModel = "loaded"
    /\ \E i \in DOMAIN loops : loops[i].pc = "scheduled"

(* C6: at most one frame is being processed at a time and at most one next-frame
   callback is scheduled: there is never more than one frame loop running. *)
C6_SingleLoop ==
    Cardinality({i \in DOMAIN loops : Running(i)}) <= 1

(* C7: every frame iteration that starts after a selection change computes the
   distance with the new selection: an iteration that starts (its callback calls
   the detector) works with the selection that is current at that moment. *)
C7_IterationUsesCurrentSelection ==
    [][\A i \in DOMAIN loops :
          (loops[i].pc = "scheduled" /\ loops'[i].pc = "detecting")
              => loops'[i].selectedObject = selectedObject]_vars

(* C8: once the view is torn down and every pending asynchronous step has
   finished, no acquired capture stream has tracks that are still running. *)
C8_CameraReleased ==
    (/\ ~mounted
     /\ startCamera # "pending"
     /\ loadModel # "pending"
     /\ \A i \in DOMAIN loops : ~Running(i))
        => tracks # "live"

(* C9: stopped is absorbing: after teardown no frame callback runs, no detector
   call is started, no frame is scheduled, distance and detected objects are not
   written, and no scheduled frame is left outstanding. *)
C9_StoppedAbsorbing ==
    /\ [](~mounted => \A i \in DOMAIN loops : loops[i].pc # "scheduled")
    /\ [][~mounted =>
             /\ ~CallbackStep
             /\ ~DetectStartStep
             /\ ~FrameStep
             /\ distance' = distance
             /\ detectedObjects' = detectedObjects]_vars

(* C10: a second teardown stops no track that is already stopped and cancels no
   scheduled frame that is already cancelled. *)
C10_TeardownIdempotent ==
    ~stopOnStopped /\ ~cancelOnCancelled

(* C11: a detector-load failure stays surfaced: once the load has failed, the
   error text shown by the view is non-empty in every later state. *)
C11_LoadErrorStaysSurfaced ==
    (mounted /\ loadModel = "failed") => error # ""

(* C12: a camera-acquisition failure sets the fixed camera message, is not
   retried, never starts the frame loop, and leaves the select usable: a
   selection change is still possible and still updates the selection. *)
C12_CameraFailure ==
    /\ [](startCamera = "denied" => (loops = <<>> /\ ~isStreaming /\ tracks = "none"))
    /\ [][(mounted /\ startCamera = "pending" /\ startCamera' = "denied")
             => error' = CameraError]_vars
    /\ [][startCamera = "denied" => startCamera' = "denied"]_vars
    /\ []((startCamera = "denied" /\ mounted /\ changes < MaxChanges)
             => \A key \in Keys \ {selectedObject} : ENABLED OnChange(key))
    /\ [][(startCamera = "denied" /\ changes' # changes)
             => (selectedObject' # selectedObject /\ selectedObject' \in Keys)]_vars

\* C12: the camera was refused, its message is shown, and the user has changed
\* the selection
C12_Witness ==
    /\ startCamera = "denied"
    /\ error = CameraError
    /\ changes > 0
    /\ selectedObject # "visage humain"

(* C13: a failure of the detector call affects that frame only: the loop goes on
   to schedule the next frame, so a detector call of a mounted view never ends
   its loop. *)
C13_DetectFailureSkipsFrame ==
    [][\A i \in DOMAIN loops :
          (mounted /\ mounted' /\ loops[i].pc = "detecting")
              => loops'[i].pc \in {"detecting", "scheduled"}]_vars

(* C14: liveness of the loop: while the view is mounted and every detector call
   returns, every invocation of the loop that has processed a frame goes on to
   process another one (a scheduled frame is eventually started, a started frame
   is eventually processed and rescheduled), and no invocation ever ends. *)
C14_LoopLive ==
    /\ \A i \in LoopIds :
          /\ (i \in DOMAIN loops /\ loops[i].pc = "scheduled")
                 ~> (i \in DOMAIN loops /\ loops[i].pc = "detecting")
          /\ (i \in DOMAIN loops /\ loops[i].pc = "detecting")
                 ~> (i \in DOMAIN loops /\ loops[i].pc = "scheduled")
    /\ [](\A i \in DOMAIN loops : loops[i].pc \in {"detecting", "scheduled"})
    /\ [](DOMAIN loops \subseteq LoopIds)

\* C14: a loop that has already processed a frame is in its next detector call
C14_Witness ==
    /\ mounted
    /\ \E i \in DOMAIN loops : animationFrameRef = i /\ loops[i].pc = "detecting"

(* C15: when several detections of a processed frame match the class of the
   selected reference, the distance after the frame is the one computed from the
   last of them in the detector's order. *)
C15_LastMatchWins ==
    [][(mounted /\ FrameStep /\ Cardinality(Matching(detectedObjects', selectedObject)) >= 2)
          => \E j \in Matching(detectedObjects', selectedObject) :
                 /\ \A k \in Matching(detectedObjects', selectedObject) : k <= j
                 /\ distance' = estimatedDistance(selectedObject,
                                                  detectedObjects'[j].width)]_vars

(* C16: on every rendered frame of the mounted view every detection the detector
   returned, matching the selection or not, is annotated in order with its box
   and with the label class (round(score * 100)%), 0.873 giving 87%, and the list
   of detected objects holds the same detections in the same order. *)
C16_FrameAnnotated ==
    [][(mounted /\ FrameStep) =>
          /\ Len(canvas') = Len(detectedObjects')
          /\ \A j \in DOMAIN detectedObjects' :
                /\ detectedObjects'[j] \in Detections
                /\ canvas'[j].strokeRect = detectedObjects'[j].width
                /\ canvas'[j].fillText =
                       detectedObjects'[j].class \o " (" \o
                       ToString((detectedObjects'[j].score + 5) \div 10) \o "%)"
                /\ detectedObjects'[j].score = 873
                       => canvas'[j].fillText = detectedObjects'[j].class \o " (87%)"]_vars

\* C16: a frame of two detections is on the canvas, one of them not of the selected
\* reference's class and one whose percentage is rounded upwards
C16_Witness ==
    /\ mounted
    /\ Len(canvas) = 2
    /\ Len(detectedObjects) = 2
    /\ \E j \in DOMAIN canvas : canvas[j].fillText = "person (13%)"
    /\ \E j \in DOMAIN detectedObjects : ~Matches(detectedObjects[j], selectedObject)

(* C17: the table of reference objects is fixed: in every reachable state it has
   the four entries it has at startup, and every entry has a real width strictly
   greater than zero and a detector class label. *)
C17_TableFixed ==
    /\ DOMAIN KNOWN_OBJECTS =
           {"visage humain", "feuille A4", "carte bancaire", "telephone portable"}
    /\ \A key \in DOMAIN KNOWN_OBJECTS :
          /\ KNOWN_OBJECTS[key].width10 > 0
          /\ KNOWN_OBJECTS[key].cocoClass \in {"person", "book", "cell phone"}
    /\ selectedObject \in DOMAIN KNOWN_OBJECTS
           => KNOWN_OBJECTS[selectedObject].width10 \in {150, 210, 85, 70}

\* C17: the table has been read for two selections: a distance computed from the
\* sheet of paper is shown after the selection was changed
C17_Witness ==
    /\ mounted
    /\ changes > 0
    /\ selectedObject = "feuille A4"
    /\ distance = Number(105)

(* C18: the selected reference is always a key of the table, at first
   'visage humain', and so is the selection every invocation of the frame
   processor looks up, so the lookup never fails; a selection event changes only
   the selection and leaves distance, error text and detected objects as they
   were. *)
C18_SelectionValid ==
    /\ [](selectedObject \in DOMAIN KNOWN_OBJECTS)
    /\ [](changes = 0 => selectedObject = "visage humain")
    /\ [](\A i \in DOMAIN loops : loops[i].selectedObject \in DOMAIN KNOWN_OBJECTS)
    /\ [][selectedObject' # selectedObject =>
             /\ distance' = distance
             /\ error' = error
             /\ detectedObjects' = detectedObjects]_vars

\* C18: the selection was changed while a distance and detected objects were
\* shown, and the loop started by the change has not yet produced a result
C18_Witness ==
    /\ mounted
    /\ selectedObject = "feuille A4"
    /\ distance = Number(75)
    /\ detectedObjects # <<>>
    /\ Len(loops) = 2
    /\ loops[2].pc = "detecting"
    /\ animationFrameRef = 1

(* C19: a distance that is shown was computed with the real width and the
   detector class of the currently selected reference: it is the distance of a
   detection of that class for that width, never a value left over from a
   previous selection. *)
C19_DistanceOfSelection ==
    (mounted /\ distance # Null) =>
        \E d \in Detections :
            /\ d.class = KNOWN_OBJECTS[selectedObject].cocoClass
            /\ distance = estimatedDistance(selectedObject, d.width)

====
